---------------------------- MODULE Spec2Model ----------------------------
(*
  Goal-funding ledger of the savings API (backend/app): goals, transactions,
  the background settlement tasks and the mobile-money gateway.

  The database is the pair (goals, txs); ids are positions in the two
  sequences.  Background tasks scheduled with BackgroundTasks.add_task are
  the set `tasks`.  The gateway (Safaricom STK push) is the environment; what
  it answered and decided for each transaction is kept in `stk`.

  Money is modelled in whole units.  Timestamps are modelled by whether the
  column is set (FALSE = NULL).  References are 0 for NULL.

  Every request handler between two awaits is one step; a request that is
  rejected is a step that changes only `response`.  The settlement task
  process_mpesa_payment reads the goal row (SELECT) and writes it back
  (UPDATE ... SET current_amount = <value computed in Python>; COMMIT) with
  no row lock and no version column: with more than one worker process on
  the same database these are two steps, ProcessLoad and ProcessCommit.
*)
EXTENDS Integers, Sequences, FiniteSets, TLC

\* ------------------------------------------------------------- bounds
MaxGoals == 1
MaxTxs == 2
MaxAmount == 1
MaxTarget == 2

\* ------------------------------------------------------------- domains
Users == {"u1", "u2"}

TransactionType == {"deposit", "withdrawal", "transfer"}
TransactionMethod == {"mpesa", "bank", "cash", "card"}
TransactionStatus == {"pending", "completed", "failed", "cancelled"}
GoalStatus == {"active", "completed", "paused", "cancelled"}

\* Mutant of TransactionStatusDefault.
TransactionStatusDefault_Completed == "completed"

\* Column defaults of the two tables.
TransactionStatusDefault == "pending"
GoalStatusDefault == "active"

\* Request inputs.  Amounts include non-positive values so that validation
\* is exercised; methods are one mobile-money and one other method (the
\* handlers only compare the method with "mpesa").
AmountInputs == 0..MaxAmount
TargetInputs == 0..MaxTarget
MethodInputs == {"mpesa", "cash"}

\* The fields of GoalUpdate a request may set (dict(exclude_unset=True)).
UpdateFields == {"target_amount", "status"}

\* What initiate_stk_push can do: return the provider's acceptance, raise on
\* a provider rejection (raise_for_status), or raise on a timeout with no
\* answer (the provider may or may not have received the push).
GatewayAnswers == {"accepted", "rejected", "timeout"}

\* goals, txs: the two tables.  tasks: the scheduled background tasks.
\* stk: the gateway's view of each transaction.  response: what the step just
\* taken answered to its caller (NoResponse for a step that is no request).
\* task_errors: the transactions whose background task ended by raising.
\* an: the request and the result of the analytics computations.
VARIABLES goals, txs, tasks, stk, response, task_errors, an,
          redis, calls, admitted

vars == <<goals, txs, tasks, stk, response, task_errors, an,
          redis, calls, admitted>>

\* The database and what hangs on it.
ledger == <<goals, txs, tasks, stk>>

\* ------------------------------------------------------------- helpers
GoalIds == DOMAIN goals
TxIds == DOMAIN txs

\* Mutant of OwnedGoal: the lookup filters on the id alone.
OwnedGoal_AnyUser(u, g) == g \in GoalIds

\* db.query(Goal).filter(Goal.id == goal_id, Goal.user_id == current_user.id).first()
OwnedGoal(u, g) == g \in GoalIds /\ goals[g].user_id = u

\* ------------------------------------------------------------- validators
\* TransactionCreate.validate_amount
validate_amount(v) == v > 0

\* MPesaPaymentRequest validates phone_number only: any amount passes.
MPesaPaymentRequestValid(v) == TRUE

\* GoalCreate.validate_target_amount
validate_target_amount(v) == v > 0

\* ------------------------------------------------------------- records
NewGoal(u, target) ==
    [user_id |-> u, target_amount |-> target, current_amount |-> 0,
     status |-> GoalStatusDefault, completed_at |-> 0]

NewTransaction(u, g, amount, ty, method) ==
    [user_id |-> u, goal_id |-> g, amount |-> amount,
     transaction_type |-> ty, method |-> method,
     status |-> TransactionStatusDefault, processed_at |-> FALSE,
     reference_number |-> 0, mpesa_reference |-> 0]

NoStk == [init |-> "none", outcome |-> "none"]

\* A handler's answer: the endpoint and the HTTP status code.
Response(op, code) == [op |-> op, code |-> code]
NoResponse == Response("none", 0)

ProcessTask(tid) == [fn |-> "process_mpesa_payment", tid |-> tid,
                     pc |-> "sleep", loaded |-> 0]
CheckTask(tid) == [fn |-> "check_mpesa_payment_status", tid |-> tid,
                   pc |-> "sleep", loaded |-> 0]

\* The shape of the state: the goals and transactions tables (the columns
\* the handlers read or write), the scheduled tasks, the gateway's view.
GoalRows ==
    [user_id : Users, target_amount : Int, current_amount : Int,
     status : GoalStatus, completed_at : {0, 1, 2}]

TransactionRows ==
    [user_id : Users, goal_id : GoalIds, amount : Int,
     transaction_type : TransactionType, method : TransactionMethod,
     status : TransactionStatus, processed_at : BOOLEAN,
     reference_number : {0} \cup TxIds, mpesa_reference : {0} \cup TxIds]

TypeOK ==
    /\ \A g \in GoalIds : goals[g] \in GoalRows
    /\ \A t \in TxIds : txs[t] \in TransactionRows
    /\ \A k \in tasks :
          /\ k.fn \in {"process_mpesa_payment", "check_mpesa_payment_status"}
          /\ k.tid \in TxIds
          /\ k.pc \in {"sleep", "loaded"}
          /\ k.loaded \in Int
    /\ DOMAIN stk = TxIds
    /\ \A t \in TxIds :
          /\ stk[t].init \in {"none", "calling"} \cup GatewayAnswers
          /\ stk[t].outcome \in {"none", "success", "failure"}
    /\ response.code \in {0, 200, 400, 404, 422, 500}
    /\ task_errors \subseteq TxIds

\* ------------------------------------------------------------- Init
\* No analytics request is modelled in the ledger's specification.
NoAnalytics == [op |-> "none"]

\* The counters of core/security.py in Redis: val 0 is a missing key, ttl
\* says whether the key carries an expiry.
Keys == {"rate_limit", "login_attempts"}
NoKey == [val |-> 0, ttl |-> FALSE]
NoRedis == [k \in Keys |-> NoKey]

\* A call slot: a request running check_rate_limit or the login handler.
Idle == [fn |-> "idle", pc |-> "idle", current |-> 0]
MaxCalls == 2
NoCalls == [c \in 1..MaxCalls |-> Idle]

Init ==
    /\ goals = <<>>
    /\ txs = <<>>
    /\ tasks = {}
    /\ stk = <<>>
    /\ response = NoResponse
    /\ task_errors = {}
    /\ an = NoAnalytics
    /\ redis = NoRedis
    /\ calls = NoCalls
    /\ admitted = 0

\* ------------------------------------------------------------- goals
create_goal(u, target) ==
    /\ Len(goals) < MaxGoals
    /\ IF ~validate_target_amount(target)
       THEN /\ response' = Response("create_goal", 422)
            /\ UNCHANGED goals
       ELSE /\ goals' = Append(goals, NewGoal(u, target))
            /\ response' = Response("create_goal", 200)
    /\ UNCHANGED <<txs, tasks, stk, task_errors, an, redis, calls, admitted>>

\* Mutant of ApplyUpdate: GoalUpdate also carries current_amount, and the
\* client sends it along with the target.
ApplyUpdate_SetsCurrent(goal, fields, target, status) ==
    [goal EXCEPT
       !.target_amount = IF "target_amount" \in fields THEN target ELSE @,
       !.current_amount = IF "target_amount" \in fields THEN target ELSE @,
       !.status = IF "status" \in fields THEN status ELSE @]

\* setattr(goal, field, value) for the fields the request sets.
ApplyUpdate(goal, fields, target, status) ==
    [goal EXCEPT
       !.target_amount = IF "target_amount" \in fields THEN target ELSE @,
       !.status = IF "status" \in fields THEN status ELSE @]

\* datetime.utcnow() written over the stored timestamp old (0 is NULL):
\* an instant other than the stored one.
utcnow(old) == IF old = 1 THEN 2 ELSE 1

\* "Check if goal is completed"
CompletionCheck(goal) ==
    IF goal.current_amount >= goal.target_amount /\ goal.status # "completed"
    THEN [goal EXCEPT !.status = "completed", !.completed_at = utcnow(@)]
    ELSE goal

update_goal(u, g, fields, target, status) ==
    /\ IF ~OwnedGoal(u, g)
       THEN /\ response' = Response("update_goal", 404)
            /\ UNCHANGED goals
       ELSE /\ goals' = [goals EXCEPT
                   ![g] = CompletionCheck(ApplyUpdate(@, fields, target, status))]
            /\ response' = Response("update_goal",
                                    IF goals'[g].target_amount = 0
                                    THEN 500 ELSE 200)
    /\ UNCHANGED <<txs, tasks, stk, task_errors, an, redis, calls, admitted>>

\* ------------------------------------------------------------- transactions
CreateTasks_Always(tid, method) == {ProcessTask(tid)}

\* The tasks create_transaction schedules for transaction tid: "Process
\* payment if it's M-Pesa".
CreateTasks(tid, method) ==
    IF method = "mpesa" THEN {ProcessTask(tid)} ELSE {}

create_transaction(u, g, amount, ty, method) ==
    /\ Len(txs) < MaxTxs
    /\ IF ~validate_amount(amount)
       THEN /\ response' = Response("create_transaction", 422)
            /\ UNCHANGED <<txs, stk, tasks>>
       ELSE IF ~OwnedGoal(u, g)
       THEN /\ response' = Response("create_transaction", 404)
            /\ UNCHANGED <<txs, stk, tasks>>
       ELSE /\ txs' = Append(txs, NewTransaction(u, g, amount, ty, method))
            /\ stk' = Append(stk, NoStk)
            /\ tasks' = tasks \cup CreateTasks(Len(txs) + 1, method)
            /\ response' = Response("create_transaction", 200)
    /\ UNCHANGED <<goals, task_errors, an, redis, calls, admitted>>

\* Mutant of InitiateExcept: the except branch does not write the status.
InitiateExcept_NoStatus(tx) == tx

\* The except branch of initiate_mpesa_payment.
InitiateExcept(tx) == [tx EXCEPT !.status = "failed"]

\* The success branch: the correlation id is stored.
InitiateAccepted(tx, tid) == [tx EXCEPT !.reference_number = tid]

\* Mutant of InitiateTasks: the scheduling block of create_transaction, placed
\* before the try.
InitiateTasks_BeforeTry(tid, answer) == {ProcessTask(tid)}

InitiateTasks_None(tid, answer) == {}

\* The tasks initiate_mpesa_payment schedules for transaction tid.
InitiateTasks(tid, answer) ==
    IF answer = "accepted" THEN {CheckTask(tid)} ELSE {}

\* initiate_mpesa_payment up to the await of initiate_stk_push: the goal is
\* looked up and the transaction is inserted and committed.
initiate_mpesa_payment(u, g, amount) ==
    /\ Len(txs) < MaxTxs
    /\ MPesaPaymentRequestValid(amount)
    /\ IF ~OwnedGoal(u, g)
       THEN /\ response' = Response("initiate_mpesa_payment", 404)
            /\ UNCHANGED <<txs, stk>>
       ELSE /\ txs' = Append(txs, NewTransaction(u, g, amount, "deposit", "mpesa"))
            /\ stk' = Append(stk, [NoStk EXCEPT !.init = "calling"])
            /\ response' = NoResponse
    /\ UNCHANGED <<goals, tasks, task_errors, an, redis, calls, admitted>>

\* initiate_mpesa_payment from the gateway's answer on.
initiate_mpesa_payment_answer(tid, answer) ==
    /\ tid \in TxIds
    /\ stk[tid].init = "calling"
    /\ txs' = [txs EXCEPT ![tid] = IF answer = "accepted"
                                   THEN InitiateAccepted(@, tid)
                                   ELSE InitiateExcept(@)]
    /\ tasks' = tasks \cup InitiateTasks(tid, answer)
    /\ stk' = [stk EXCEPT ![tid].init = answer]
    /\ response' = Response("initiate_mpesa_payment",
                             IF answer = "accepted" THEN 200 ELSE 400)
    /\ UNCHANGED <<goals, task_errors, an, redis, calls, admitted>>

\* ------------------------------------------------------------- settlement
\* process_mpesa_payment, the reads: the transaction and its goal are loaded
\* into the session; the task now holds the goal's current_amount.
ProcessLoad(k) ==
    /\ k \in tasks
    /\ k.fn = "process_mpesa_payment"
    /\ k.pc = "sleep"
    /\ tasks' = (tasks \ {k}) \cup
                {[k EXCEPT !.pc = "loaded",
                           !.loaded = goals[txs[k.tid].goal_id].current_amount]}
    /\ response' = NoResponse
    /\ UNCHANGED <<goals, txs, stk, task_errors, an, redis, calls, admitted>>

\* What process_mpesa_payment writes to the transaction.
process_mpesa_payment_tx(tx, tid) ==
    [tx EXCEPT !.status = "completed", !.processed_at = TRUE,
               !.mpesa_reference = tid]

\* What process_mpesa_payment writes to the goal: goal.current_amount +=
\* transaction.amount, on the value that was loaded.
process_mpesa_payment_goal(goal, tx, loaded) ==
    [goal EXCEPT !.current_amount = loaded + tx.amount]

\* The database after process_mpesa_payment's commit for transaction tid,
\* with `loaded` the current_amount the task read.
process_mpesa_payment(gs, ts, tid, loaded) ==
    [goals |-> [gs EXCEPT ![ts[tid].goal_id] =
                    process_mpesa_payment_goal(@, ts[tid], loaded)],
     txs |-> [ts EXCEPT ![tid] = process_mpesa_payment_tx(@, tid)]]

\* send_payment_success_notification(self, db, user_id, amount, goal_title)
\* takes four arguments; process_mpesa_payment passes three.
SendPaymentSuccessParams == <<"db", "user_id", "amount", "goal_title">>
ProcessCallArgs == <<"transaction.user_id", "transaction.amount", "goal.title">>

\* Python raises TypeError at the call when the arguments do not bind.
CallRaises(params, args) == Len(args) # Len(params)

\* process_mpesa_payment from the commit on: the writes are committed, then
\* the notification is dispatched; nothing catches what the dispatch raises.
ProcessCommit(k) ==
    /\ k \in tasks
    /\ k.fn = "process_mpesa_payment"
    /\ k.pc = "loaded"
    /\ LET db == process_mpesa_payment(goals, txs, k.tid, k.loaded)
       IN goals' = db.goals /\ txs' = db.txs
    /\ tasks' = tasks \ {k}
    /\ task_errors' = IF CallRaises(SendPaymentSuccessParams, ProcessCallArgs)
                      THEN task_errors \cup {k.tid}
                      ELSE task_errors
    /\ response' = NoResponse
    /\ UNCHANGED <<stk, an, redis, calls, admitted>>

\* What check_mpesa_payment_status writes for transaction tx.
check_mpesa_payment_status_tx(tx) ==
    IF tx.status = "pending"
    THEN [tx EXCEPT !.status = "completed", !.processed_at = TRUE]
    ELSE tx

check_mpesa_payment_status(k) ==
    /\ k \in tasks
    /\ k.fn = "check_mpesa_payment_status"
    /\ txs' = [txs EXCEPT ![k.tid] = check_mpesa_payment_status_tx(@)]
    /\ tasks' = tasks \ {k}
    /\ response' = NoResponse
    /\ UNCHANGED <<goals, stk, task_errors, an, redis, calls, admitted>>

\* ------------------------------------------------------------- gateway
\* The provider decides a push it has received: the customer pays or not.
GatewayResolve(tid, outcome) ==
    /\ tid \in TxIds
    /\ stk[tid].init \in {"accepted", "timeout"}
    /\ stk[tid].outcome = "none"
    /\ stk' = [stk EXCEPT ![tid].outcome = outcome]
    /\ response' = NoResponse
    /\ UNCHANGED <<goals, txs, tasks, task_errors, an, redis, calls, admitted>>

\* POST /api/mpesa/callback: process_callback parses the payload; nothing is
\* written to the database.
mpesa_callback(tid) ==
    /\ tid \in TxIds
    /\ stk[tid].outcome # "none"
    /\ response' = Response("mpesa_callback", 200)
    /\ UNCHANGED <<goals, txs, tasks, stk, task_errors, an, redis, calls, admitted>>

\* ------------------------------------------------------------- Next
\* Goal ids a request may name: those that exist and one that may not.
GoalIdInputs == 1..MaxGoals

Next ==
    \/ \E u \in Users, target \in TargetInputs : create_goal(u, target)
    \/ \E u \in Users, g \in GoalIdInputs, fields \in SUBSET UpdateFields :
          \E target \in IF "target_amount" \in fields THEN TargetInputs ELSE {0},
             status \in IF "status" \in fields THEN GoalStatus ELSE {"active"} :
            update_goal(u, g, fields, target, status)
    \/ \E u \in Users, g \in GoalIdInputs, amount \in AmountInputs,
          ty \in TransactionType, method \in MethodInputs :
            create_transaction(u, g, amount, ty, method)
    \/ \E u \in Users, g \in GoalIdInputs, amount \in AmountInputs :
            initiate_mpesa_payment(u, g, amount)
    \/ \E tid \in TxIds, answer \in GatewayAnswers :
            initiate_mpesa_payment_answer(tid, answer)
    \/ \E k \in tasks : ProcessLoad(k)
    \/ \E k \in tasks : ProcessCommit(k)
    \/ \E k \in tasks : check_mpesa_payment_status(k)
    \/ \E tid \in TxIds, outcome \in {"success", "failure"} : GatewayResolve(tid, outcome)
    \/ \E tid \in TxIds : mpesa_callback(tid)

Spec == Init /\ [][Next]_vars

\* A step of a background task of transaction t.
TaskStep(t) ==
    \E k \in tasks :
        /\ k.tid = t
        /\ ProcessLoad(k) \/ ProcessCommit(k) \/ check_mpesa_payment_status(k)

\* The await of initiate_stk_push of transaction t ends: httpx answers,
\* raises, or times out.
AnswerStep(t) ==
    /\ t \in TxIds
    /\ \E answer \in GatewayAnswers : initiate_mpesa_payment_answer(t, answer)

\* Scheduled background tasks are eventually run, and a request that
\* awaits the gateway eventually continues.
Fairness ==
    \A t \in 1..MaxTxs : WF_vars(TaskStep(t)) /\ WF_vars(AnswerStep(t))

LiveSpec == Spec /\ Fairness

\* ------------------------------------------------------------- analytics
(*
  The read side (api/analytics.py, api/goals.py get_goal_analytics) as pure
  computations over one goal and a transaction history with timestamps.
  A naive datetime is a number of hours since 2024-01-01 00:00; a float is
  the exact rational <<numerator, denominator>> with a positive denominator.
  The request `an` holds the server's UTC clock, the offset of its local
  time zone (datetime.now() is local, created_at is datetime.utcnow()), the
  goal, and the history; each endpoint writes its result into `an`.
*)
MaxHist == 1

\* Constants of analytics.py.
WindowDays == 30
SavingsRateDays == 90
TrendMonths == 12
TrendStepDays == 30
TrendSpanDays == 31

\* -- datetime
IsLeap(y) == (y % 4 = 0 /\ y % 100 # 0) \/ y % 400 = 0

DaysInMonth(y, m) ==
    IF m = 2 THEN (IF IsLeap(y) THEN 29 ELSE 28)
    ELSE IF m \in {4, 6, 9, 11} THEN 30 ELSE 31

RECURSIVE DateFrom(_, _, _)
\* The date `days` days after the first of month m of year y.
DateFrom(days, y, m) ==
    IF days < DaysInMonth(y, m)
    THEN [year |-> y, month |-> m, day |-> days + 1]
    ELSE DateFrom(days - DaysInMonth(y, m),
                  IF m = 12 THEN y + 1 ELSE y,
                  IF m = 12 THEN 1 ELSE m + 1)

\* The calendar date of datetime t.
DateOf(t) == DateFrom(t \div 24, 2024, 1)

RECURSIVE DaysBefore(_, _)
\* Days from 2024-01-01 to the first of month m of year y.
DaysBefore(y, m) ==
    IF y = 2024 /\ m = 1 THEN 0
    ELSE LET py == IF m = 1 THEN y - 1 ELSE y
             pm == IF m = 1 THEN 12 ELSE m - 1
         IN DaysBefore(py, pm) + DaysInMonth(py, pm)

\* datetime(y, m, d, h)
Datetime(y, m, d, h) == (DaysBefore(y, m) + d - 1) * 24 + h

\* t.replace(day=1): the time of day is kept.
ReplaceDay1(t) == t - (DateOf(t).day - 1) * 24

\* timedelta(days=n)
Days(n) == n * 24

\* (a - b).days: timedelta.days is the floor.
DeltaDays(a, b) == (a - b) \div 24

\* t.strftime("%Y-%m")
YearMonth(t) == [year |-> DateOf(t).year, month |-> DateOf(t).month]

\* -- rationals
Max(a, b) == IF a >= b THEN a ELSE b
RatGt0(r) == r[1] > 0
RatGeq(r, q) == r[1] * q[2] >= q[1] * r[2]
RatEq(r, q) == r[1] * q[2] = q[1] * r[2]
RatMin(r, q) == IF RatGeq(r, q) THEN q ELSE r

\* (float(current) / float(target)) * 100, for a target other than 0.
Percent(current, target) == <<current * 100, target>>

\* float(x) / float(target) and Decimal / Decimal raise for a zero divisor.
ZeroDivision(target) == target = 0

\* -- queries
RECURSIVE SumRows(_, _, _)
\* The sum of the amounts of the rows among the first n of h whose index
\* is in keep.
SumRows(h, n, keep) ==
    IF n = 0 THEN 0
    ELSE SumRows(h, n - 1, keep) + (IF n \in keep THEN h[n].amount ELSE 0)

\* func.sum(Transaction.amount) over the rows of h a filter keeps (`or 0`
\* for no row); keep is the set of the indices of the kept rows.
SumHist(h, keep) == SumRows(h, Len(h), keep)

\* datetime.now() and datetime.utcnow() of a request.
LocalNow(a) == a.now_utc + a.tz
UtcNow(a) == a.now_utc

\* remaining_amount / max(days_remaining, 1) if days_remaining > 0 else 0
DailyRequired(remaining, days_remaining) ==
    IF days_remaining > 0
    THEN <<remaining, Max(days_remaining, 1)>>
    ELSE <<0, 1>>

\* The filter of the 30-day velocity query of get_goal_progress_analytics.
RecentFilter(a, tx) ==
    /\ tx.goal_id = a.goal.id
    /\ tx.transaction_type = "deposit"
    /\ tx.status = "completed"
    /\ tx.created_at >= LocalNow(a) - Days(WindowDays)

\* The body of get_goal_progress_analytics' loop for the goal of the request.
GoalProgress(a) ==
    LET days_remaining == DeltaDays(a.goal.target_date, LocalNow(a))
        remaining_amount == a.goal.target_amount - a.goal.current_amount
        daily_required == DailyRequired(remaining_amount, days_remaining)
        recent_deposits ==
            SumHist(a.hist, {j \in DOMAIN a.hist : RecentFilter(a, a.hist[j])})
        daily_average == <<recent_deposits, WindowDays>>
    IN [progress_percentage |->
            Percent(a.goal.current_amount, a.goal.target_amount),
        days_remaining |-> days_remaining,
        daily_required_savings |-> daily_required,
        recent_deposits |-> recent_deposits,
        daily_average_savings |-> daily_average,
        is_on_track |-> IF RatGt0(daily_required)
                        THEN RatGeq(daily_average, daily_required)
                        ELSE TRUE]

\* The (year, month) pairs of the rows of h whose index is in keep.
HistMonths(h, keep) == {YearMonth(h[i].created_at) : i \in keep}

\* get_goal_analytics (api/goals.py): the clock is utcnow, the history is
\* the goal's completed transactions (at most 30, the newest).
GoalAnalytics(a) ==
    LET days_remaining == DeltaDays(a.goal.target_date, UtcNow(a))
        remaining_amount == a.goal.target_amount - a.goal.current_amount
        daily_required == DailyRequired(remaining_amount, days_remaining)
        transactions ==
            {j \in DOMAIN a.hist : /\ a.hist[j].goal_id = a.goal.id
                                   /\ a.hist[j].status = "completed"}
        total_deposits ==
            SumHist(a.hist, {j \in transactions :
                               a.hist[j].transaction_type = "deposit"})
        months == Cardinality(HistMonths(a.hist, transactions))
        monthly_avg == IF months > 0
                       THEN <<total_deposits, Max(months, 1)>>
                       ELSE <<0, 1>>
    IN [progress_percentage |->
            Percent(a.goal.current_amount, a.goal.target_amount),
        days_remaining |-> days_remaining,
        daily_required_savings |-> daily_required,
        monthly_average_savings |-> monthly_avg,
        is_on_track |-> IF RatGt0(monthly_avg)
                        THEN RatGeq(<<monthly_avg[1], monthly_avg[2] * 30>>,
                                    daily_required)
                        ELSE FALSE]

\* month_start and month_end of iteration i of the trend loop.
MonthStart(a, i) == ReplaceDay1(LocalNow(a)) - Days(TrendStepDays * i)
MonthEnd(a, i) == MonthStart(a, i) + Days(TrendSpanDays)

\* The filter of the monthly_deposits query of iteration i.
MonthFilter(a, i, tx) ==
    /\ tx.user_id = a.goal.user_id
    /\ tx.transaction_type = "deposit"
    /\ tx.status = "completed"
    /\ tx.created_at >= MonthStart(a, i)
    /\ tx.created_at < MonthEnd(a, i)

\* monthly_trends[::-1]: entry k of the response is iteration TrendMonths - k.
MonthlyTrends(a) ==
    [k \in 1..TrendMonths |->
        LET i == TrendMonths - k
        IN [month |-> YearMonth(MonthStart(a, i)),
            amount |-> SumHist(a.hist, {j \in DOMAIN a.hist :
                                          MonthFilter(a, i, a.hist[j])})]]

\* The filter of the savings-rate query of get_savings_overview.
SavingsRateFilter(a, tx) ==
    /\ tx.user_id = a.goal.user_id
    /\ tx.transaction_type = "deposit"
    /\ tx.status = "completed"
    /\ tx.created_at >= LocalNow(a) - Days(SavingsRateDays)

\* The category breakdown: one group, the category of the user's goal
\* (`total_target or 1` is 1 for a total of 0).
CategoryBreakdown(a) ==
    LET total_saved == a.goal.current_amount
        total_target == a.goal.target_amount
    IN <<[current_amount |-> total_saved,
          target_amount |-> total_target,
          percentage |-> Percent(total_saved,
                                 IF total_target # 0 THEN total_target ELSE 1)]>>

\* get_savings_overview: the totals, the trend series, the savings rate and
\* the category breakdown.
SavingsOverview(a) ==
    LET recent_deposits ==
            SumHist(a.hist, {j \in DOMAIN a.hist :
                               SavingsRateFilter(a, a.hist[j])})
        total_savings == a.goal.current_amount
        total_target == a.goal.target_amount
    IN [total_savings |-> total_savings,
        total_target |-> total_target,
        overall_progress |-> IF total_target > 0
                             THEN Percent(total_savings, total_target)
                             ELSE <<0, 1>>,
        monthly_trends |-> MonthlyTrends(a),
        recent_deposits |-> recent_deposits,
        monthly_savings_rate |-> <<recent_deposits, 3>>,
        category_breakdown |-> CategoryBreakdown(a)]

\* GoalResponse.from_orm(goal): the two computed fields.
GoalResponse(a) ==
    [progress_percentage |->
        RatMin(Percent(a.goal.current_amount, a.goal.target_amount), <<100, 1>>),
     days_remaining |-> Max(DeltaDays(a.goal.target_date, LocalNow(a)), 0)]

\* -- requests
\* The server's UTC clock and the offset of its local time zone, in hours.
NowInputs == {Datetime(2025, 1, 20, 10), Datetime(2025, 3, 15, 10)}
TzInputs == {0 - 5, 0, 3}

\* Target dates, relative to the server's local clock: overdue, later
\* today, tomorrow, in thirty days.
TargetDateOffsets == {0 - 36, 12, 36, Days(30)}

\* created_at of a stored transaction (UTC, never after the UTC clock): an
\* hour ago, exactly thirty days ago, an hour before that, and thirty days
\* before the first of the current month.
CreatedAtInputs(now_utc) ==
    {now_utc - 1, now_utc - Days(30), now_utc - Days(30) - 1,
     ReplaceDay1(now_utc) - Days(30)}

HistRows(now_utc) ==
    [user_id : Users, goal_id : 1..2, amount : {1},
     transaction_type : TransactionType, status : TransactionStatus,
     created_at : CreatedAtInputs(now_utc)]

AnalyticsGoals(now_utc, tz) ==
    [id : {1}, user_id : {"u1"}, target_amount : 0..MaxTarget,
     current_amount : 0..MaxTarget,
     target_date : {now_utc + tz + o : o \in TargetDateOffsets}]

Histories(now_utc) ==
    UNION {[1..n -> HistRows(now_utc)] : n \in 0..MaxHist}

AnalyticsRequests ==
    UNION {[op : {"request"}, now_utc : {n}, tz : {z},
            goal : AnalyticsGoals(n, z), hist : Histories(n),
            code : {0}, out : {<<>>}]
           : n \in NowInputs, z \in TzInputs}

InitAnalytics ==
    /\ goals = <<>>
    /\ txs = <<>>
    /\ tasks = {}
    /\ stk = <<>>
    /\ response = NoResponse
    /\ task_errors = {}
    /\ an \in AnalyticsRequests
    /\ redis = NoRedis
    /\ calls = NoCalls
    /\ admitted = 0

\* The answer of an endpoint: 500 and no body when building the response
\* raises, else 200 and the body.
Answered(a, op, raises, out) ==
    IF raises
    THEN [a EXCEPT !.op = op, !.code = 500]
    ELSE [a EXCEPT !.op = op, !.code = 200, !.out = out]

get_goal_progress_analytics ==
    /\ an.op = "request"
    /\ an' = Answered(an, "goal_progress",
                      ZeroDivision(an.goal.target_amount), GoalProgress(an))
    /\ UNCHANGED <<goals, txs, tasks, stk, response, task_errors,
                 redis, calls, admitted>>

get_goal_analytics ==
    /\ an.op = "request"
    /\ an' = Answered(an, "goal_analytics",
                      ZeroDivision(an.goal.target_amount), GoalAnalytics(an))
    /\ UNCHANGED <<goals, txs, tasks, stk, response, task_errors,
                 redis, calls, admitted>>

get_savings_overview ==
    /\ an.op = "request"
    /\ an' = Answered(an, "savings_overview", FALSE, SavingsOverview(an))
    /\ UNCHANGED <<goals, txs, tasks, stk, response, task_errors,
                 redis, calls, admitted>>

get_goal ==
    /\ an.op = "request"
    /\ an' = Answered(an, "goal",
                      ZeroDivision(an.goal.target_amount), GoalResponse(an))
    /\ UNCHANGED <<goals, txs, tasks, stk, response, task_errors,
                 redis, calls, admitted>>

NextAnalytics ==
    \/ get_goal_progress_analytics
    \/ get_goal_analytics
    \/ get_savings_overview
    \/ get_goal

SpecAnalytics == InitAnalytics /\ [][NextAnalytics]_vars

\* ---------------------------------------------------------- rate limits
(*
  check_rate_limit, check_login_attempts and record_login_attempt
  (core/security.py) against the shared Redis.  Each Redis command is one
  step; the requests of several worker processes interleave between the
  commands of one call.  The expiry of a key is a step of Redis.
*)
\* limit of check_rate_limit and settings.MAX_LOGIN_ATTEMPTS, scaled down.
RateLimit == 2
MaxLoginAttempts == 2

\* redis_client.setex(key, seconds, 1)
setex(r, key) == [r EXCEPT ![key] = [val |-> 1, ttl |-> TRUE]]

\* redis_client.incr(key): a missing key is created with value 1 and no
\* expiry.
incr(r, key) == [r EXCEPT ![key].val = @ + 1]

\* redis_client.delete(key)
delete(r, key) == [r EXCEPT ![key] = NoKey]

\* check_rate_limit: current = redis_client.get(key)
check_rate_limit_get(c) ==
    /\ calls[c] = Idle
    /\ calls' = [calls EXCEPT ![c] = [fn |-> "check_rate_limit", pc |-> "read",
                                      current |-> redis["rate_limit"].val]]
    /\ UNCHANGED <<ledger, response, task_errors, an, redis, admitted>>

\* check_rate_limit after the get: setex and True, False, or incr and True.
check_rate_limit(c) ==
    /\ calls[c].fn = "check_rate_limit"
    /\ calls[c].pc = "read"
    /\ IF calls[c].current = 0
       THEN /\ redis' = setex(redis, "rate_limit")
            /\ admitted' = admitted + 1
       ELSE IF calls[c].current >= RateLimit
       THEN UNCHANGED <<redis, admitted>>
       ELSE /\ redis' = incr(redis, "rate_limit")
            /\ admitted' = admitted + 1
    /\ calls' = [calls EXCEPT ![c] = Idle]
    /\ UNCHANGED <<ledger, response, task_errors, an>>

\* login: check_login_attempts passes (below the maximum) or locks out.
check_login_attempts(c) ==
    /\ calls[c] = Idle
    /\ calls' = [calls EXCEPT ![c] =
                   IF redis["login_attempts"].val >= MaxLoginAttempts
                   THEN Idle
                   ELSE [fn |-> "login", pc |-> "checked", current |-> 0]]
    /\ UNCHANGED <<ledger, response, task_errors, an, redis, admitted>>

\* record_login_attempt(email, False): current = redis_client.get(key)
record_login_attempt_get(c) ==
    /\ calls[c].fn = "login"
    /\ calls[c].pc = "checked"
    /\ calls' = [calls EXCEPT ![c] = [fn |-> "login", pc |-> "read",
                                      current |-> redis["login_attempts"].val]]
    /\ UNCHANGED <<ledger, response, task_errors, an, redis, admitted>>

\* record_login_attempt(email, success): delete on success; after a
\* failure's get, incr or setex.
record_login_attempt(c, success) ==
    /\ calls[c].fn = "login"
    /\ IF success
       THEN /\ calls[c].pc = "checked"
            /\ redis' = delete(redis, "login_attempts")
       ELSE /\ calls[c].pc = "read"
            /\ redis' = IF calls[c].current # 0
                        THEN incr(redis, "login_attempts")
                        ELSE setex(redis, "login_attempts")
    /\ calls' = [calls EXCEPT ![c] = Idle]
    /\ UNCHANGED <<ledger, response, task_errors, an, admitted>>

\* Redis drops a key whose expiry has passed; for the rate-limit key the
\* window is over.
Expire(key) ==
    /\ redis[key].val > 0
    /\ redis[key].ttl
    /\ redis' = delete(redis, key)
    /\ admitted' = IF key = "rate_limit" THEN 0 ELSE admitted
    /\ UNCHANGED <<ledger, response, task_errors, an, calls>>

NextRate ==
    \/ \E c \in 1..MaxCalls : check_rate_limit_get(c)
    \/ \E c \in 1..MaxCalls : check_rate_limit(c)
    \/ \E c \in 1..MaxCalls : check_login_attempts(c)
    \/ \E c \in 1..MaxCalls : record_login_attempt_get(c)
    \/ \E c \in 1..MaxCalls, success \in BOOLEAN : record_login_attempt(c, success)
    \/ \E key \in Keys : Expire(key)

SpecRate == Init /\ [][NextRate]_vars

\* ------------------------------------------------------------- claims
IsProcessTask(k) == k.fn = "process_mpesa_payment"

RECURSIVE SumAmounts(_, _, _, _)
\* Sum of the amounts of goal g's completed transactions of type ty among
\* the first n transactions of ts.
SumAmounts(ts, g, ty, n) ==
    IF n = 0 THEN 0
    ELSE SumAmounts(ts, g, ty, n - 1)
         + (IF /\ ts[n].goal_id = g
               /\ ts[n].status = "completed"
               /\ ts[n].transaction_type = ty
            THEN ts[n].amount ELSE 0)

RECURSIVE SumProcessed(_, _, _)
\* Sum of the amounts of goal g's transactions that process_mpesa_payment
\* has settled (it is the only writer of mpesa_reference).
SumProcessed(ts, g, n) ==
    IF n = 0 THEN 0
    ELSE SumProcessed(ts, g, n - 1)
         + (IF ts[n].goal_id = g /\ ts[n].mpesa_reference # 0
            THEN ts[n].amount ELSE 0)

\* C1: for every goal, current_amount equals the sum of its completed
\* deposits minus the sum of its completed withdrawals.
C1_LedgerBalance ==
    \A g \in GoalIds :
        goals[g].current_amount =
            SumAmounts(txs, g, "deposit", Len(txs))
            - SumAmounts(txs, g, "withdrawal", Len(txs))

\* C2: settlement is idempotent: running process_mpesa_payment again for a
\* transaction it has already settled changes neither the transaction nor
\* the goal's current_amount.
C2_SettleIdempotent ==
    \A t \in TxIds :
        txs[t].mpesa_reference # 0 =>
            process_mpesa_payment(goals, txs, t,
                                  goals[txs[t].goal_id].current_amount)
            = [goals |-> goals, txs |-> txs]

\* C3: no lost update: whenever no settlement of a goal is between its read
\* and its commit, the goal's current_amount holds the amount of every
\* transaction that process_mpesa_payment has settled on it.
C3_NoLostUpdate ==
    \A g \in GoalIds :
        (\A k \in tasks :
            IsProcessTask(k) /\ txs[k.tid].goal_id = g => k.pc = "sleep")
        => goals[g].current_amount = SumProcessed(txs, g, Len(txs))

\* C4: a transaction's status changes only out of pending: no step changes
\* the status of a completed, failed or cancelled transaction.
C4_TerminalAbsorbing ==
    [][\A t \in TxIds :
          txs[t].status # "pending" => txs'[t].status = txs[t].status]_vars

\* C4 witness: a transaction failed at initiation, and a later transaction
\* has since been created and settled.
C4_Witness ==
    \E t1, t2 \in TxIds :
        /\ t1 < t2
        /\ txs[t1].status = "failed"
        /\ txs[t2].status = "completed"

\* C5: no goal is active with current_amount >= target_amount.
C5_CompletedAtTarget ==
    \A g \in GoalIds :
        ~(goals[g].status = "active"
          /\ goals[g].current_amount >= goals[g].target_amount)

\* C6: a transaction whose gateway call raised is failed from the request
\* on, the request leaves every goal as it was, no settlement is ever
\* scheduled for it, and every later change of its goal's current_amount is
\* the settlement of another transaction.
C6_FailedInitiation ==
    [][\A t \in DOMAIN txs' :
          stk'[t].init \in {"rejected", "timeout"} =>
            /\ txs'[t].status = "failed"
            /\ \A k \in tasks' : k.tid # t
            /\ (t \in TxIds /\ stk[t].init = "calling") => goals' = goals
            /\ (t \in TxIds /\ goals'[txs[t].goal_id].current_amount
                                 # goals[txs[t].goal_id].current_amount)
                => \E k \in tasks \ tasks' :
                      /\ k.tid # t
                      /\ txs[k.tid].status = "pending"
                      /\ txs'[k.tid].status = "completed"]_vars

\* C6 witness: an initiation timed out, the transaction is failed, and the
\* same goal has since been credited by another transaction.
C6_Witness ==
    \E t \in TxIds :
        /\ stk[t].init = "timeout"
        /\ txs[t].status = "failed"
        /\ txs[t].amount > 0
        /\ goals[txs[t].goal_id].current_amount > 0

\* C7: a settlement that commits on the balance it read applies the signed
\* amount: +amount for a deposit, -amount for a withdrawal.
C7_SignedAmount ==
    [][\A k \in tasks :
          LET tx == txs[k.tid]
              g == tx.goal_id
          IN (/\ IsProcessTask(k) /\ k.pc = "loaded" /\ k \notin tasks'
              /\ k.loaded = goals[g].current_amount
              /\ tx.transaction_type \in {"deposit", "withdrawal"})
             => goals'[g].current_amount =
                    goals[g].current_amount
                    + (IF tx.transaction_type = "deposit"
                       THEN tx.amount ELSE 0 - tx.amount)]_vars

\* C8: a transaction is completed only if the gateway reported success for
\* it; in particular one whose outcome is failure is never completed.
C8_CompletedOnlyOnSuccess ==
    \A t \in TxIds :
        txs[t].status = "completed" => stk[t].outcome = "success"

\* C9: a transaction whose initiation timed out stays pending until the
\* gateway has given a definitive answer.
C9_TimeoutStaysPending ==
    \A t \in TxIds :
        (stk[t].init = "timeout" /\ stk[t].outcome = "none")
        => txs[t].status = "pending"

\* C10: every stored transaction has amount > 0.
C10_PositiveAmount ==
    \A t \in TxIds : txs[t].amount > 0

\* C11: a request to create a transaction that is answered not-found
\* changes nothing, and every transaction that is inserted names a goal
\* that exists and belongs to the transaction's user.
C11_UnownedGoalRejected ==
    [][/\ (/\ response'.code = 404
           /\ response'.op \in {"create_transaction", "initiate_mpesa_payment"})
          => UNCHANGED ledger
       /\ \A t \in DOMAIN txs' \ TxIds :
            /\ txs'[t].goal_id \in GoalIds
            /\ goals[txs'[t].goal_id].user_id = txs'[t].user_id]_vars

\* C11 witness: transactions are stored on a goal, and a create_transaction
\* request for that goal by another user has just been answered not-found.
C11_Witness ==
    /\ response = Response("create_transaction", 404)
    /\ Len(goals) = MaxGoals
    /\ Len(txs) > 0

\* C12: a step that inserts a transaction inserts it as pending and leaves
\* every goal as it was.
C12_CreatedPending ==
    [][\A t \in DOMAIN txs' \ TxIds :
          txs'[t].status = "pending" /\ goals' = goals]_vars

\* C12 witness: a transaction has just been created, pending, on a goal that
\* an earlier settlement has credited.
C12_Witness ==
    /\ response = Response("create_transaction", 200)
    /\ txs[Len(txs)].status = "pending"
    /\ goals[txs[Len(txs)].goal_id].current_amount > 0

\* C13: a goal's current_amount changes only in a step that moves one of
\* its transactions to completed.
C13_BalanceOnlyBySettlement ==
    [][\A g \in GoalIds :
          goals'[g].current_amount # goals[g].current_amount
          => \E t \in TxIds :
                /\ txs[t].goal_id = g
                /\ txs[t].status # "completed"
                /\ txs'[t].status = "completed"]_vars

\* C13 witness: update_goal has just changed the target of a goal that
\* holds a balance, while another of its transactions is failed.
C13_Witness ==
    /\ response = Response("update_goal", 200)
    /\ \E g \in GoalIds :
          /\ goals[g].current_amount > 0
          /\ goals[g].target_amount > goals[g].current_amount
          /\ \E t \in TxIds : txs[t].goal_id = g /\ txs[t].status = "failed"

\* C14: processed_at is set exactly when the status is terminal.
C14_ProcessedAtIffTerminal ==
    \A t \in TxIds : txs[t].processed_at <=> txs[t].status # "pending"

\* C15: a settlement that has committed stays committed and its task ends
\* without error, whatever the notification dispatch does.
C15_DispatchFailureHarmless ==
    \A t \in TxIds :
        txs[t].mpesa_reference # 0
        => txs[t].status = "completed" /\ t \notin task_errors


\* The daily required rate as the specification defines it: the remaining
\* amount over the days remaining, the days floored at 0 and the divisor
\* at 1.
RequiredRate(a, days_remaining) ==
    <<a.goal.target_amount - a.goal.current_amount,
      Max(Max(days_remaining, 0), 1)>>

\* C16: the daily required savings rate of a goal is its remaining amount
\* divided by max(days_remaining, 1), days_remaining floored at 0; a goal at
\* or past its target date requires its full remaining amount.
C16_DailyRequiredRate ==
    (an.op \in {"goal_progress", "goal_analytics"} /\ an.code = 200)
        => RatEq(an.out.daily_required_savings,
                 RequiredRate(an, an.out.days_remaining))

\* C17: is_on_track is true exactly when the 30-day velocity is at least the
\* daily required rate; an overdue goal with a positive remaining amount and
\* a smaller velocity is not on track.
C17_OnTrackIffVelocity ==
    (an.op = "goal_progress" /\ an.code = 200)
        => (an.out.is_on_track
              <=> RatGeq(an.out.daily_average_savings,
                         RequiredRate(an, an.out.days_remaining)))

\* A transaction the window of W days ending now (exclusive) counts.
InWindow(tx, now, W) ==
    /\ tx.transaction_type = "deposit"
    /\ tx.status = "completed"
    /\ tx.created_at >= now - Days(W)
    /\ tx.created_at < now

\* C18: the velocity over W days counts exactly the completed deposits
\* with created_at in [now - W, now): nothing at or after now, nothing
\* older than the window, no withdrawal, no pending/failed/cancelled row.
C18_WindowExact ==
    /\ (an.op = "goal_progress" /\ an.code = 200)
        => an.out.recent_deposits
             = SumHist(an.hist,
                       {j \in DOMAIN an.hist :
                          /\ an.hist[j].goal_id = an.goal.id
                          /\ InWindow(an.hist[j], LocalNow(an), WindowDays)})
    /\ an.op = "savings_overview"
        => an.out.recent_deposits
             = SumHist(an.hist,
                       {j \in DOMAIN an.hist :
                          /\ an.hist[j].user_id = an.goal.user_id
                          /\ InWindow(an.hist[j], LocalNow(an), SavingsRateDays)})

RECURSIVE SumTrend(_, _)
SumTrend(trend, n) ==
    IF n = 0 THEN 0 ELSE SumTrend(trend, n - 1) + trend[n].amount

\* C19: the monthly buckets do not overlap: the sum of the bucket amounts
\* never exceeds the user's total of completed deposits.
C19_BucketsDisjoint ==
    an.op = "savings_overview"
        => SumTrend(an.out.monthly_trends, Len(an.out.monthly_trends))
             <= SumHist(an.hist,
                        {j \in DOMAIN an.hist :
                           /\ an.hist[j].user_id = an.goal.user_id
                           /\ an.hist[j].transaction_type = "deposit"
                           /\ an.hist[j].status = "completed"})

\* Months counted from year 0.
MonthIndex(ym) == ym.year * 12 + ym.month - 1

\* C20: the trend series has exactly 12 entries, oldest first, labelled
\* with 12 distinct consecutive calendar months ending with the current
\* month.
C20_TrendLabels ==
    an.op = "savings_overview"
        => LET trend == an.out.monthly_trends
           IN /\ Len(trend) = 12
              /\ trend[12].month = YearMonth(LocalNow(an))
              /\ \A k \in 1..11 :
                   MonthIndex(trend[k + 1].month) = MonthIndex(trend[k].month) + 1

\* C21: a category whose summed target_amount is 0 is reported with
\* percentage 0 whatever its summed current_amount, and no analytics or
\* goal response raises for a goal whose target_amount is 0.
C21_ZeroTargetSafe ==
    an.goal.target_amount = 0
        => /\ an.code # 500
           /\ an.op = "savings_overview"
                => \A i \in DOMAIN an.out.category_breakdown :
                     RatEq(an.out.category_breakdown[i].percentage, <<0, 1>>)

\* 0 <= r <= 100
InPercentRange(r) == RatGeq(r, <<0, 1>>) /\ RatGeq(<<100, 1>>, r)

\* C22: every percentage output lies in [0, 100], also when current_amount
\* exceeds target_amount.
C22_PercentagesClamped ==
    an.code = 200
        => /\ an.op \in {"goal", "goal_progress"}
                => InPercentRange(an.out.progress_percentage)
           /\ an.op = "savings_overview"
                => /\ InPercentRange(an.out.overall_progress)
                   /\ \A i \in DOMAIN an.out.category_breakdown :
                        InPercentRange(an.out.category_breakdown[i].percentage)

\* C23: every stored goal has target_amount > 0: update_goal keeps the
\* positivity enforced at creation.
C23_TargetPositive == \A g \in GoalIds : goals[g].target_amount > 0

\* C24: completion is idempotent: a goal that is completed with completed_at
\* set, and still at or over its target after a step, is still completed
\* and has the same completed_at.
C24_CompletionIdempotent ==
    [][\A g \in GoalIds :
         (/\ goals[g].status = "completed"
          /\ goals[g].completed_at # 0
          /\ goals'[g].current_amount >= goals'[g].target_amount)
         => /\ goals'[g].status = "completed"
            /\ goals'[g].completed_at = goals[g].completed_at]_vars

\* C27: a completed goal has completed_at set and current_amount >=
\* target_amount.
C27_CompletedConsistent ==
    \A g \in GoalIds :
        goals[g].status = "completed"
        => /\ goals[g].completed_at # 0
           /\ goals[g].current_amount >= goals[g].target_amount

\* C25: the two on-track computations agree: for the same goal, history and
\* instant, get_goal_progress_analytics and get_goal_analytics return the
\* same is_on_track.
C25_OnTrackAgree ==
    (an.op = "goal_progress" /\ an.code = 200)
        => an.out.is_on_track = GoalAnalytics(an).is_on_track

\* C26: every mobile-money transaction eventually reaches a terminal state,
\* provided the scheduled background tasks are eventually run.
C26_MpesaEventuallyTerminal ==
    \A t \in 1..MaxTxs :
        (t \in TxIds /\ txs[t].method = "mpesa")
            ~> (t \in TxIds /\ txs[t].status # "pending")

C26_Witness ==
    /\ tasks = {}
    /\ \E t \in TxIds : /\ txs[t].method = "mpesa"
                        /\ txs[t].reference_number # 0
                        /\ txs[t].status = "completed"
    /\ \E t \in TxIds : /\ txs[t].method = "mpesa"
                        /\ stk[t].init = "rejected"
                        /\ txs[t].status = "failed"

\* C28: a transaction created with a method other than mpesa stays pending
\* in every later state, and a goal's current_amount changes only in a step
\* that completes an mpesa transaction.
C28_NonMpesaStaysPending ==
    [][/\ \A t \in TxIds :
            txs[t].method # "mpesa"
            => txs[t].status = "pending" /\ txs'[t] = txs[t]
       /\ \A t \in DOMAIN txs' \ TxIds :
            txs'[t].method # "mpesa" => txs'[t].status = "pending"
       /\ \A g \in GoalIds :
            goals'[g].current_amount # goals[g].current_amount
            => \E t \in TxIds : /\ txs[t].method = "mpesa"
                                /\ txs[t].status # "completed"
                                /\ txs'[t].status = "completed"]_vars

C28_Witness ==
    /\ tasks = {}
    /\ \E t \in TxIds :
         /\ txs[t].method # "mpesa"
         /\ txs[t].status = "pending"
         /\ goals[txs[t].goal_id].current_amount > 0
         /\ \E t2 \in TxIds : t2 > t /\ txs[t2].status = "completed"

\* C29: check_rate_limit admits at most `limit` requests per identifier
\* within one window, also when requests run it concurrently.
C29_AtMostLimit == admitted <= RateLimit

\* C30: every rate-limit counter and login-attempt counter that exists
\* carries an expiry.
C30_CountersExpire == \A key \in Keys : redis[key].val > 0 => redis[key].ttl

=========================================================================
